---- MODULE Spec2Model ----
(***************************************************************************)
(* A model of the Engram Cloud TypeScript client (src/src/index.ts):       *)
(* the constructor, the nine typed operations that assemble a parameter    *)
(* object, and mcpCall, the one primitive that posts the JSON-RPC envelope *)
(* under a per-call abort timer and unwraps the response.                  *)
(*                                                                         *)
(* JavaScript values are modelled as follows.                              *)
(*   - An optional argument or option is a sequence of length 0 (absent,   *)
(*     undefined) or 1 (supplied, the value inside).                       *)
(*   - A value on the wire (a parameter, a response body) is a tagged      *)
(*     record: JStr, JNum, JArr, JObj, JNull, and Undefined for what a     *)
(*     property read of a missing key yields.                              *)
(*   - An object is a function from its keys to values; a key is present   *)
(*     exactly when it is in the DOMAIN.                                   *)
(*   - Strings are TLA+ strings.                                           *)
(***************************************************************************)
EXTENDS Integers, Sequences, FiniteSets, TLC

VARIABLES
  config,    \* the EngramConfig handed to the constructor
  baseUrl,   \* EngramClient.baseUrl
  timeout,   \* EngramClient.timeout
  headers,   \* EngramClient.headers
  calls      \* per invocation: the position and locals of one mcpCall

vars == <<config, baseUrl, timeout, headers, calls>>

----------------------------------------------------------------------------
(* Bounds of the model *)

\* number of invocations that may be in flight on the client at once
MaxCalls == 2
\* longest endpoint string handed to the constructor
MaxEndpointLen == 2

CallIds == 1..MaxCalls

----------------------------------------------------------------------------
(* JSON and JavaScript values *)

None == <<>>
Some(v) == <<v>>
IsSome(o) == Len(o) = 1

EmptyObject == [k \in {} |-> 0]

Undefined == [t |-> "undefined"]
JNull == [t |-> "null"]
JStr(s) == [t |-> "str", s |-> s]
JNum(n) == [t |-> "num", n |-> n]
JArr(a) == [t |-> "arr", a |-> a]
JObj(o) == [t |-> "obj", o |-> o]

\* JavaScript truthiness of a value: undefined, null, "" and 0 are falsy;
\* every array and every object (empty ones too) is truthy.
Truthy(v) ==
  CASE v.t = "undefined" -> FALSE
    [] v.t = "null" -> FALSE
    [] v.t = "str" -> v.s /= ""
    [] v.t = "num" -> v.n /= 0
    [] v.t = "arr" -> TRUE
    [] v.t = "obj" -> TRUE

\* v === undefined || v === null, the test behind ?? and ?.
Nullish(v) == v.t \in {"undefined", "null"}

\* a || d in place of a ?? d: a falsy value takes the default too
CoalesceOr(v, d) == IF Truthy(v) THEN v ELSE d

\* a ?? d
Coalesce(v, d) == IF Nullish(v) THEN d ELSE v

\* The value an option holds as the code sees it: undefined when absent.
OptValue(o) == IF IsSome(o) THEN o[1] ELSE Undefined

\* options?.key for an options argument that may itself be absent.
OptionalChain(options, key) ==
  IF IsSome(options) THEN OptValue(options[1][key]) ELSE Undefined

\* params.key = v, on a parameter object p
SetKey(p, key, v) == (key :> v) @@ p

----------------------------------------------------------------------------
(* The constructor *)

DefaultTimeout == 30000

EndsWithSlash(s) == Len(s) > 0 /\ SubSeq(s, Len(s), Len(s)) = "/"

\* s.replace(/\/+$/, ""): every trailing slash goes
RECURSIVE StripAllTrailingSlashes(_)
StripAllTrailingSlashes(s) ==
  IF EndsWithSlash(s) THEN StripAllTrailingSlashes(SubSeq(s, 1, Len(s) - 1)) ELSE s

\* s.replace(/\/$/, ""): the pattern has no g or m flag, so it matches at
\* most once, a slash that is the last character of the string.
StripTrailingSlash(s) == IF EndsWithSlash(s) THEN SubSeq(s, 1, Len(s) - 1) ELSE s

\* config.timeout ?? 30000
TimeoutOf(cfg) == IF IsSome(cfg.timeout) THEN cfg.timeout[1] ELSE DefaultTimeout

HeadersOf(cfg) ==
  ("Authorization" :> "Bearer " \o cfg.apiKey) @@
  ("X-Tenant-Slug" :> cfg.tenant) @@
  ("Content-Type" :> "application/json")

----------------------------------------------------------------------------
(* The typed operations: each assembles a tool name and a parameter object *)

CreateParams(content, options) ==
  LET p0 == ("content" :> JStr(content)) @@
            ("memory_type" :> Coalesce(OptionalChain(options, "memoryType"), JStr("note")))
      p1 == IF Truthy(OptionalChain(options, "tags"))
            THEN SetKey(p0, "tags", OptionalChain(options, "tags")) ELSE p0
      p2 == IF Truthy(OptionalChain(options, "workspace"))
            THEN SetKey(p1, "workspace", OptionalChain(options, "workspace")) ELSE p1
      p3 == IF Truthy(OptionalChain(options, "metadata"))
            THEN SetKey(p2, "metadata", OptionalChain(options, "metadata")) ELSE p2
      p4 == IF OptionalChain(options, "importance") /= Undefined
            THEN SetKey(p3, "importance", OptionalChain(options, "importance")) ELSE p3
  IN  [name |-> "memory_create", arguments |-> p4]

GetParams(memoryId) ==
  [name |-> "memory_get", arguments |-> ("id" :> JNum(memoryId))]

UpdateParams(memoryId, options) ==
  LET o  == options
      p0 == ("id" :> JNum(memoryId))
      p1 == IF OptionalChain(o, "content") /= Undefined
            THEN SetKey(p0, "content", OptionalChain(o, "content")) ELSE p0
      p2 == IF OptionalChain(o, "tags") /= Undefined
            THEN SetKey(p1, "tags", OptionalChain(o, "tags")) ELSE p1
      p3 == IF OptionalChain(o, "metadata") /= Undefined
            THEN SetKey(p2, "metadata", OptionalChain(o, "metadata")) ELSE p2
      p4 == IF OptionalChain(o, "importance") /= Undefined
            THEN SetKey(p3, "importance", OptionalChain(o, "importance")) ELSE p3
  IN  [name |-> "memory_update", arguments |-> p4]

DeleteParams(memoryId) ==
  [name |-> "memory_delete", arguments |-> ("id" :> JNum(memoryId))]

ListParams(options) ==
  LET p0 == ("limit" :> Coalesce(OptionalChain(options, "limit"), JNum(50))) @@
            ("offset" :> Coalesce(OptionalChain(options, "offset"), JNum(0)))
      p1 == IF Truthy(OptionalChain(options, "workspace"))
            THEN SetKey(p0, "workspace", OptionalChain(options, "workspace")) ELSE p0
      p2 == IF Truthy(OptionalChain(options, "memoryType"))
            THEN SetKey(p1, "memory_type", OptionalChain(options, "memoryType")) ELSE p1
      p3 == IF Truthy(OptionalChain(options, "tags"))
            THEN SetKey(p2, "tags", OptionalChain(options, "tags")) ELSE p2
  IN  [name |-> "memory_list", arguments |-> p3]

SearchParams(query, options) ==
  LET p0 == ("query" :> JStr(query)) @@
            ("limit" :> Coalesce(OptionalChain(options, "limit"), JNum(10)))
      p1 == IF Truthy(OptionalChain(options, "workspace"))
            THEN SetKey(p0, "workspace", OptionalChain(options, "workspace")) ELSE p0
  IN  [name |-> "memory_search", arguments |-> p1]

RelatedParams(memoryId) ==
  [name |-> "memory_related", arguments |-> ("id" :> JNum(memoryId))]

\* edgeType: string = "related_to": the default applies to an absent argument
LinkParams(fromId, toId, edgeType) ==
  [name |-> "memory_link",
   arguments |-> ("from_id" :> JNum(fromId)) @@ ("to_id" :> JNum(toId)) @@
                 ("edge_type" :> (IF IsSome(edgeType) THEN edgeType[1]
                                  ELSE JStr("related_to")))]

StatsParams ==
  [name |-> "memory_stats", arguments |-> EmptyObject]

\* The invocation a caller makes, as a record: the operation and its
\* arguments. options is None for a call that passes no options object.
Wrap(a) ==
  CASE a.op = "create"  -> CreateParams(a.content, a.options)
    [] a.op = "get"     -> GetParams(a.id)
    [] a.op = "update"  -> UpdateParams(a.id, a.options)
    [] a.op = "delete"  -> DeleteParams(a.id)
    [] a.op = "list"    -> ListParams(a.options)
    [] a.op = "search"  -> SearchParams(a.query, a.options)
    [] a.op = "related" -> RelatedParams(a.id)
    [] a.op = "link"    -> LinkParams(a.fromId, a.toId, a.edgeType)
    [] a.op = "stats"   -> StatsParams

----------------------------------------------------------------------------
(* The inputs a caller may hand to the operations *)

StrOptions      == {None, Some(JStr("")), Some(JStr("w"))}
TypeOptions     == {None, Some(JStr("")), Some(JStr("fact"))}
TagsOptions     == {None, Some(JArr(<<>>)), Some(JArr(<<"t">>))}
MetadataOptions == {None, Some(JObj(EmptyObject)), Some(JObj("k" :> JStr("v")))}
NumOptions      == {None, Some(JNum(0)), Some(JNum(1))}
LimitOptions    == {None, Some(JNum(0)), Some(JNum(5))}

CreateOptions ==
  [memoryType : TypeOptions, tags : TagsOptions, workspace : StrOptions,
   metadata : MetadataOptions, importance : NumOptions]
ListOptions ==
  [limit : LimitOptions, offset : LimitOptions, workspace : StrOptions,
   memoryType : TypeOptions, tags : TagsOptions]
SearchOptions == [limit : LimitOptions, workspace : StrOptions]
UpdateOptions ==
  [content : StrOptions, tags : TagsOptions, metadata : MetadataOptions,
   importance : NumOptions]

MaybeOptions(S) == {None} \cup {Some(o) : o \in S}

Inputs ==
  {[op |-> "create", content |-> "x", options |-> o] : o \in MaybeOptions(CreateOptions)}
  \cup {[op |-> "update", id |-> 1, options |-> Some(o)] : o \in UpdateOptions}
  \cup {[op |-> "list", options |-> o] : o \in MaybeOptions(ListOptions)}
  \cup {[op |-> "search", query |-> "q", options |-> o] : o \in MaybeOptions(SearchOptions)}
  \cup {[op |-> "link", fromId |-> 1, toId |-> 2, edgeType |-> e] :
          e \in {None, Some(JStr("")), Some(JStr("caused_by"))}}
  \cup {[op |-> o, id |-> 1] : o \in {"get", "delete", "related"}}
  \cup {[op |-> "stats"]}

\* The invocation used where the calls are followed to their end: what
\* mcpCall does after the fetch does not depend on the parameters.
SampleInputs == {[op |-> "get", id |-> 1]}

----------------------------------------------------------------------------
(* What the transport may deliver *)

Malformed == [kind |-> "text"]
Parsed(v) == [kind |-> "json", value |-> v]

ErrorValues ==
  {JNull,
   JObj(EmptyObject),
   JObj("message" :> JStr("not found")),
   JObj("message" :> JStr("")),
   JObj("message" :> JNull)}

Envelopes ==
  LET errs == {EmptyObject} \cup {"error" :> e : e \in ErrorValues}
      ress == {EmptyObject, "result" :> JStr("ok")}
  IN  {JObj(e @@ r) : e \in errs, r \in ress}

Bodies == {Malformed, Parsed(JNull)} \cup {Parsed(v) : v \in Envelopes}

Statuses ==
  {[status |-> 200, statusText |-> "OK"],
   [status |-> 204, statusText |-> "No Content"],
   [status |-> 404, statusText |-> "Not Found"],
   [status |-> 500, statusText |-> "Internal Server Error"]}

Responses ==
  {[status |-> s.status, statusText |-> s.statusText, body |-> b] :
     s \in Statuses, b \in Bodies}

SampleResponses ==
  {r \in Responses :
     /\ r.status \in {200, 404}
     /\ r.body \in {Malformed,
                    Parsed(JObj("result" :> JStr("ok"))),
                    Parsed(JObj("error" :> JObj("message" :> JStr("not found"))))}}

\* Response.ok
Ok(resp) == resp.status \in 200..299

----------------------------------------------------------------------------
(* mcpCall *)

IdleCall ==
  [pc |-> "idle", args |-> None, request |-> None, posts |-> 0,
   timer |-> "unset", delay |-> 0, aborted |-> FALSE,
   response |-> None, bodyRead |-> FALSE, outcome |-> None]

Return(v) == [kind |-> "return", value |-> v]
Throw(name, message) == [kind |-> "throw", name |-> name, message |-> message]

\* new EngramError(message)
EngramError(message) == Throw("EngramError", message)

Payload(method, params) ==
  [jsonrpc |-> "2.0", id |-> 1, method |-> "tools/call",
   params |-> [name |-> method, arguments |-> params]]

\* `${this.baseUrl}/v1/mcp`
RequestUrl(base) == base \o "/v1/mcp"

\* obj.key for a parsed value that is not null or undefined
Get(v, key) == IF v.t = "obj" /\ key \in DOMAIN v.o THEN v.o[key] ELSE Undefined

\* `HTTP ${resp.status}: ${resp.statusText}`
HttpMessage(resp) == "HTTP " \o ToString(resp.status) \o ": " \o resp.statusText

\* only a server error counts as a failure
StatusCheckServerErrors(resp) ==
  IF resp.status >= 500 THEN Some(EngramError(HttpMessage(resp))) ELSE None

\* the check of the status, run as the await of fetch resumes
StatusCheck(resp) ==
  IF ~Ok(resp) THEN Some(EngramError(HttpMessage(resp))) ELSE None

\* result.error.message || "Unknown error": an empty message is replaced too
ErrorMessageOr(err) == CoalesceOr(Get(err, "message"), JStr("Unknown error")).s

\* result.error.message ?? "Unknown error"
ErrorMessage(err) == Coalesce(Get(err, "message"), JStr("Unknown error")).s

\* What follows `await resp.json()` once the body has arrived.
Unwrap(body) ==
  IF body.kind = "text"
  THEN Throw("SyntaxError", "Unexpected token in JSON")
  ELSE LET result == body.value IN
       IF Nullish(result)
       THEN Throw("TypeError", "Cannot read properties of null (reading 'error')")
       ELSE IF Truthy(Get(result, "error"))
            THEN EngramError(ErrorMessage(Get(result, "error")))
            ELSE Return(Get(result, "result"))

\* clearTimeout(timer): cancels a timer that has not fired yet
ClearTimeout(t) == IF t = "armed" THEN "cleared" ELSE t

\* clearTimeout after the return statement only, with no finally
SettleNoFinally(c, o) ==
  [c EXCEPT !.pc = "done", !.outcome = Some(o),
            !.timer = IF o.kind = "return" THEN ClearTimeout(c.timer) ELSE c.timer]

\* a failed attempt is retried once
SettleRetry(c, o) ==
  IF o.kind = "throw" /\ c.posts < 2
  THEN [c EXCEPT !.pc = "fetching", !.posts = @ + 1, !.response = None,
                 !.bodyRead = FALSE, !.timer = "armed", !.aborted = FALSE]
  ELSE [c EXCEPT !.pc = "done", !.outcome = Some(o), !.timer = ClearTimeout(c.timer)]

\* The call leaves the try block with outcome o; finally runs clearTimeout.
Settle(c, o) ==
  [c EXCEPT !.pc = "done", !.outcome = Some(o), !.timer = ClearTimeout(c.timer)]

\* one controller shared by the client: an expiry aborts every call in flight
AbortShared(cs, i) ==
  [j \in DOMAIN cs |->
     IF j = i THEN [cs[j] EXCEPT !.aborted = TRUE, !.timer = "fired"]
     ELSE [cs[j] EXCEPT !.aborted = @ \/ cs[j].pc \in {"fetching", "reading"}]]

\* the timer expires but the signal never reaches the request
AbortNoSignal(cs, i) == [cs EXCEPT ![i].timer = "fired"]

\* controller.abort(), run by the timer of call i
Abort(cs, i) == [cs EXCEPT ![i].aborted = TRUE, ![i].timer = "fired"]

\* An operation is invoked: the parameters are assembled, the envelope is
\* built, the controller and its timer are created and fetch is called.
Invoke(i, a) ==
  /\ calls[i].pc = "idle"
  /\ LET w == Wrap(a) IN
     calls' = [calls EXCEPT ![i] =
       [@ EXCEPT !.pc = "fetching",
                 !.args = Some(a),
                 !.timer = "armed",
                 !.delay = timeout,
                 !.posts = @ + 1,
                 !.request = Some([url |-> RequestUrl(baseUrl),
                                   method |-> "POST",
                                   headers |-> headers,
                                   body |-> Payload(w.name, w.arguments),
                                   signal |-> i])]]
  /\ UNCHANGED <<config, baseUrl, timeout, headers>>

\* fetch resolves with a response; the status is checked at once.
FetchResolve(i, resp) ==
  /\ calls[i].pc = "fetching"
  /\ ~calls[i].aborted
  /\ LET c == [calls[i] EXCEPT !.response = Some(resp)]
         failed == StatusCheck(resp)
     IN calls' = [calls EXCEPT ![i] =
          IF IsSome(failed) THEN Settle(c, failed[1])
          ELSE [c EXCEPT !.pc = "reading", !.bodyRead = TRUE]]
  /\ UNCHANGED <<config, baseUrl, timeout, headers>>

\* resp.json() settles: the body is parsed and the envelope unwrapped.
JsonResolve(i) ==
  /\ calls[i].pc = "reading"
  /\ ~calls[i].aborted
  /\ calls' = [calls EXCEPT ![i] = Settle(@, Unwrap(calls[i].response[1].body))]
  /\ UNCHANGED <<config, baseUrl, timeout, headers>>

\* The timer of call i expires: its callback aborts the call's controller.
TimerFire(i) ==
  /\ calls[i].timer = "armed"
  /\ calls' = Abort(calls, i)
  /\ UNCHANGED <<config, baseUrl, timeout, headers>>

\* The pending fetch or body read rejects because its signal was aborted.
AbortReject(i) ==
  /\ calls[i].pc \in {"fetching", "reading"}
  /\ calls[i].aborted
  /\ calls' = [calls EXCEPT ![i] =
       Settle(@, Throw("AbortError", "This operation was aborted"))]
  /\ UNCHANGED <<config, baseUrl, timeout, headers>>

\* The network fails: fetch (or the body read) rejects with a TypeError.
NetworkFail(i) ==
  /\ calls[i].pc \in {"fetching", "reading"}
  /\ ~calls[i].aborted
  /\ calls' = [calls EXCEPT ![i] = Settle(@, Throw("TypeError", "fetch failed"))]
  /\ UNCHANGED <<config, baseUrl, timeout, headers>>

----------------------------------------------------------------------------
(* Specifications *)

Alphabet == {"h", "/"}

RECURSIVE Strings(_)
Strings(n) ==
  IF n = 0 THEN {""}
  ELSE LET shorter == Strings(n - 1) IN
       shorter \cup {s \o c : s \in shorter, c \in Alphabet}

Configs ==
  [baseUrl : Strings(MaxEndpointLen), apiKey : {"ek_1"}, tenant : {"t1"},
   timeout : {None, Some(10)}]

\* The configurations used where the calls are followed to their end.
SampleConfigs == {c \in Configs : c.baseUrl \in {"h", "h/"}}

\* new EngramClient(cfg); no call has been made yet
Constructed(cfg) ==
  /\ config = cfg
  /\ baseUrl = StripTrailingSlash(cfg.baseUrl)
  /\ timeout = TimeoutOf(cfg)
  /\ headers = HeadersOf(cfg)
  /\ calls = [i \in CallIds |-> IdleCall]

Init == \E cfg \in SampleConfigs : Constructed(cfg)

\* The client built from any configuration of Configs.
ConfigInit == \E cfg \in Configs : Constructed(cfg)

Next ==
  \E i \in CallIds :
    \/ \E a \in SampleInputs : Invoke(i, a)
    \/ \E r \in SampleResponses : FetchResolve(i, r)
    \/ JsonResolve(i)
    \/ TimerFire(i)
    \/ AbortReject(i)
    \/ NetworkFail(i)

Spec == Init /\ [][Next]_vars

\* Construction and parameter assembly alone, over every configuration of
\* Configs and every input of Inputs.
ParamNext == \E a \in Inputs : Invoke(1, a)

ParamSpec == ConfigInit /\ [][ParamNext]_vars

\* One call, over every response of Responses.
ResponseNext ==
  \/ \E a \in SampleInputs : Invoke(1, a)
  \/ \E r \in Responses : FetchResolve(1, r)
  \/ JsonResolve(1)
  \/ TimerFire(1)
  \/ AbortReject(1)
  \/ NetworkFail(1)

ResponseSpec == Init /\ [][ResponseNext]_vars

\* The event loop runs a timer that is due and delivers the rejection of an
\* aborted request; nothing obliges the transport to answer.
FairSpec ==
  Spec /\ \A i \in CallIds : WF_vars(TimerFire(i)) /\ WF_vars(AbortReject(i))

----------------------------------------------------------------------------
(* Vocabulary of the properties *)

Issued(i) == calls[i].pc /= "idle"
Done(i) == calls[i].pc = "done"
ArgsOf(i) == calls[i].args[1]
ParamsOf(i) == calls[i].request[1].body.params.arguments
OutcomeOf(i) == calls[i].outcome[1]
ResponseOf(i) == calls[i].response[1]

Threw(i, name) ==
  Done(i) /\ OutcomeOf(i).kind = "throw" /\ OutcomeOf(i).name = name

\* sub occurs in s
Contains(s, sub) ==
  \E k \in 1..(Len(s) - Len(sub) + 1) : SubSeq(s, k, k + Len(sub) - 1) = sub

\* The optional fields of each operation that have no default: the option
\* key of the calling surface and the key on the wire.
OptionalFields(op) ==
  CASE op = "create" -> {[option |-> "tags", wire |-> "tags"],
                         [option |-> "workspace", wire |-> "workspace"],
                         [option |-> "metadata", wire |-> "metadata"],
                         [option |-> "importance", wire |-> "importance"]}
    [] op = "update" -> {[option |-> "content", wire |-> "content"],
                         [option |-> "tags", wire |-> "tags"],
                         [option |-> "metadata", wire |-> "metadata"],
                         [option |-> "importance", wire |-> "importance"]}
    [] op = "list"   -> {[option |-> "workspace", wire |-> "workspace"],
                         [option |-> "memoryType", wire |-> "memory_type"],
                         [option |-> "tags", wire |-> "tags"]}
    [] op = "search" -> {[option |-> "workspace", wire |-> "workspace"]}
    [] OTHER -> {}

\* The fields that are always sent, with their default.
DefaultedFields(op) ==
  CASE op = "create" -> {[option |-> "memoryType", wire |-> "memory_type",
                          default |-> JStr("note")]}
    [] op = "list"   -> {[option |-> "limit", wire |-> "limit", default |-> JNum(50)],
                         [option |-> "offset", wire |-> "offset", default |-> JNum(0)]}
    [] op = "search" -> {[option |-> "limit", wire |-> "limit", default |-> JNum(10)]}
    [] OTHER -> {}

\* the caller passed no option at all
NoOptions(a) ==
  ~IsSome(a.options) \/ \A k \in DOMAIN a.options[1] : ~IsSome(a.options[1][k])

----------------------------------------------------------------------------
(* Properties *)

\* C1: every call that fails rejects with an EngramError, whatever made it
\* fail (status, error envelope, timeout or abort, malformed body).
C1_SingleErrorKind ==
  \A i \in CallIds :
    (Done(i) /\ OutcomeOf(i).kind = "throw") => OutcomeOf(i).name = "EngramError"

\* C2: an optional field the caller did not supply is no key of the
\* parameters sent, and one the caller supplied is sent under its wire key
\* with the supplied value, empty values ("" , [], {}, 0) included.
C2_OptionalFieldsExact ==
  \A i \in CallIds :
    Issued(i) =>
      LET a == ArgsOf(i)
          p == ParamsOf(i)
      IN  /\ \A f \in OptionalFields(a.op) :
               LET v == OptionalChain(a.options, f.option) IN
               IF v = Undefined THEN f.wire \notin DOMAIN p
               ELSE f.wire \in DOMAIN p /\ p[f.wire] = v
          /\ \A f \in DefaultedFields(a.op) :
               LET v == OptionalChain(a.options, f.option) IN
               v /= Undefined => (f.wire \in DOMAIN p /\ p[f.wire] = v)

\* C3: a response whose status is outside 200..299 makes the call fail with
\* an EngramError whose message contains the status number and the status
\* text, whatever the body holds, and the body is never read.
C3_NonSuccessStatus ==
  \A i \in CallIds :
    (IsSome(calls[i].response) /\ ResponseOf(i).status \notin 200..299) =>
      /\ Threw(i, "EngramError")
      /\ Contains(OutcomeOf(i).message, ToString(ResponseOf(i).status))
      /\ Contains(OutcomeOf(i).message, ResponseOf(i).statusText)
      /\ ~calls[i].bodyRead

C3_Witness ==
  \E i \in CallIds :
    /\ Done(i)
    /\ IsSome(calls[i].response)
    /\ ResponseOf(i).status = 404
    /\ ResponseOf(i).body = Parsed(JObj("result" :> JStr("ok")))

\* The call got a success status and its body was parsed to an object: it
\* was neither aborted nor cut by the network while the body was read.
Unwrapped(i) ==
  /\ Done(i)
  /\ calls[i].bodyRead
  /\ ~calls[i].aborted
  /\ OutcomeOf(i) /= Throw("TypeError", "fetch failed")
  /\ ResponseOf(i).body.kind = "json"
  /\ ResponseOf(i).body.value.t = "obj"

EnvelopeOf(i) == ResponseOf(i).body.value.o

\* C4 as stated: on a success status, an envelope with an error field
\* present makes the call fail with the message error.message, or with
\* "Unknown error" when error has no message; result is returned only when
\* the error field is absent.
C4_ErrorFieldPresent ==
  \A i \in CallIds :
    Unwrapped(i) =>
      LET env == EnvelopeOf(i) IN
      /\ "error" \in DOMAIN env =>
           /\ OutcomeOf(i).kind = "throw"
           /\ OutcomeOf(i).name = "EngramError"
           /\ OutcomeOf(i).message =
                (IF env["error"].t = "obj" /\ "message" \in DOMAIN env["error"].o
                 THEN env["error"].o["message"].s ELSE "Unknown error")
      /\ OutcomeOf(i).kind = "return" => "error" \notin DOMAIN env

\* C4 amended: an error field that is present and truthy (any object, an
\* empty one too) makes the call fail with an EngramError whose message is
\* error.message when that is present and not null (the empty string
\* included) and "Unknown error" when it is absent or null; an error field
\* that is absent or falsy (null) makes the call return result, undefined
\* when result is absent.
C4_TruthyErrorField ==
  \A i \in CallIds :
    Unwrapped(i) =>
      LET env == EnvelopeOf(i)
          present == "error" \in DOMAIN env /\ env["error"].t = "obj"
      IN  IF present
          THEN /\ Threw(i, "EngramError")
               /\ OutcomeOf(i).message =
                    (IF "message" \in DOMAIN env["error"].o
                        /\ env["error"].o["message"].t = "str"
                     THEN env["error"].o["message"].s ELSE "Unknown error")
          ELSE /\ "error" \in DOMAIN env => env["error"] = JNull
               /\ OutcomeOf(i) =
                    Return(IF "result" \in DOMAIN env THEN env["result"] ELSE Undefined)

C4_Witness ==
  \E i \in CallIds :
    /\ Unwrapped(i)
    /\ EnvelopeOf(i) = ("error" :> JObj("message" :> JStr(""))) @@ ("result" :> JStr("ok"))
    /\ OutcomeOf(i) = EngramError("")

\* C5: a call that is in flight always finishes; its timer is armed with
\* the configured timeout (30000 by default), and once the timer has fired
\* the request is aborted and the call rejects with an AbortError.
C5_TimeoutTerminates ==
  /\ [](\A i \in CallIds :
          Issued(i) =>
            calls[i].delay =
              (IF IsSome(config.timeout) THEN config.timeout[1] ELSE DefaultTimeout))
  /\ \A i \in CallIds : (calls[i].pc \in {"fetching", "reading"}) ~> Done(i)
  /\ \A i \in CallIds :
       (calls[i].timer = "fired") ~> (calls[i].aborted /\ Threw(i, "AbortError"))

C5_Witness ==
  \E i \in CallIds :
    /\ Threw(i, "AbortError")
    /\ ~IsSome(calls[i].response)
    /\ calls[i].timer = "fired"
    /\ calls[i].delay = DefaultTimeout

\* C6: create sends memory_type "note", list sends limit 50 and offset 0,
\* search sends limit 10 and link sends edge_type "related_to" when the
\* caller gives no value, and the caller's value (0 and "" included)
\* otherwise; list without any option sends exactly {limit: 50, offset: 0}.
C6_Defaults ==
  \A i \in CallIds :
    Issued(i) =>
      LET a == ArgsOf(i)
          p == ParamsOf(i)
      IN  /\ \A f \in DefaultedFields(a.op) :
               /\ f.wire \in DOMAIN p
               /\ p[f.wire] = (IF IsSome(a.options) /\ IsSome(a.options[1][f.option])
                               THEN a.options[1][f.option][1] ELSE f.default)
          /\ (a.op = "list" /\ NoOptions(a)) =>
               p = ("limit" :> JNum(50)) @@ ("offset" :> JNum(0))
          /\ a.op = "link" =>
               p["edge_type"] = (IF IsSome(a.edgeType) THEN a.edgeType[1]
                                 ELSE JStr("related_to"))

C6_Witness ==
  \E i \in CallIds :
    /\ Issued(i)
    /\ ArgsOf(i).op = "list"
    /\ IsSome(ArgsOf(i).options)
    /\ ArgsOf(i).options[1].limit = Some(JNum(0))
    /\ ArgsOf(i).options[1].offset = None
    /\ ParamsOf(i)["limit"] = JNum(0)
    /\ ParamsOf(i)["offset"] = JNum(0)

\* C7: the request goes to <endpoint>/v1/mcp, where an endpoint given with
\* a trailing slash counts as the endpoint without that one slash, so both
\* spellings reach the same URL; nothing else of the endpoint changes.
C7_TrailingSlash ==
  LET e == config.baseUrl IN
  /\ IF EndsWithSlash(e) THEN baseUrl \o "/" = e ELSE baseUrl = e
  /\ \A i \in CallIds :
       Issued(i) =>
         IF EndsWithSlash(e)
         THEN \E b \in Strings(MaxEndpointLen) :
                e = b \o "/" /\ calls[i].request[1].url = b \o "/v1/mcp"
         ELSE calls[i].request[1].url = e \o "/v1/mcp"

C7_Witness ==
  \E i \in CallIds :
    /\ Issued(i)
    /\ config.baseUrl = "h/"
    /\ calls[i].request[1].url = "h/v1/mcp"

\* C8: a call that has finished, on whatever path, has no armed timer.
C8_TimerCleanup ==
  \A i \in CallIds : Done(i) => calls[i].timer \in {"cleared", "fired"}

C8_Witness ==
  /\ Threw(1, "EngramError") /\ calls[1].timer = "cleared"
  /\ Threw(2, "SyntaxError") /\ calls[2].timer = "cleared"

\* C9: a step in which the timer of one call expires leaves every other
\* call as it was; a call is aborted only in a step in which its own timer
\* expires, and rejects with an AbortError only after that.
C9_CancellationIsolation ==
  [][\A i \in CallIds :
       /\ (calls[i].timer = "armed" /\ calls'[i].timer = "fired") =>
            \A j \in CallIds \ {i} : calls'[j] = calls[j]
       /\ (~calls[i].aborted /\ calls'[i].aborted) =>
            (calls[i].timer = "armed" /\ calls'[i].timer = "fired")
       /\ (~Done(i) /\ calls'[i].pc = "done" /\ calls'[i].outcome[1].kind = "throw"
             /\ calls'[i].outcome[1].name = "AbortError") =>
            calls[i].timer = "fired"]_vars

C9_Witness ==
  /\ Threw(1, "AbortError")
  /\ calls[2].pc = "done"
  /\ OutcomeOf(2) = Return(JStr("ok"))
  /\ calls[2].timer = "cleared"
  /\ ~calls[2].aborted

\* C10: an invocation calls fetch exactly once, a POST to <baseUrl>/v1/mcp,
\* and ends in one outcome that never changes: no request follows a failure.
C10_OnePostOneOutcome ==
  /\ [](\A i \in CallIds :
          /\ calls[i].posts = (IF Issued(i) THEN 1 ELSE 0)
          /\ Issued(i) => /\ calls[i].request[1].method = "POST"
                          /\ calls[i].request[1].url = baseUrl \o "/v1/mcp"
          /\ Done(i) <=> IsSome(calls[i].outcome))
  /\ [][\A i \in CallIds : Done(i) => calls'[i] = calls[i]]_vars

C10_Witness ==
  /\ Threw(1, "EngramError") /\ calls[1].posts = 1
  /\ Threw(2, "AbortError") /\ calls[2].posts = 1

====
